---- MODULE Spec2Model ----
(***************************************************************************)
(* A model of image_processing: the PNG encoder (png_writer.py) and the    *)
(* RGBA canvas (canvas.py).  Byte strings are sequences of integers in     *)
(* 0..255; Python's 0-based index i is the sequence index i + 1.           *)
(***************************************************************************)
EXTENDS Integers, Sequences, FiniteSets, TLC

VARIABLES
    stream,             \* PngWriter.stream: the bytes in the sink
    width,              \* PngWriter.width
    height,             \* PngWriter.height
    dynamic_filtering,  \* PngWriter.dynamic_filtering
    image,              \* the argument of write_image
    pc,                 \* position inside write_image
    mark,               \* the length of the sink when write_image was entered
    raised,             \* the exception write_image ended with, or NoError
    chunk,              \* the arguments of the latest write_chunk call
    arg_scanline,           \* the scanline a filter is called with
    arg_prev_scanline,      \* the previous scanline it is called with, or None
    applied,            \* the filter call that was made, or "none"
    filtered,           \* what that call returned
    heap,               \* the RgbaColor objects: heap[id] is the object's fields, or Free
    cv,                 \* the client's canvases by name: a Canvas object's fields, or NoCanvas
    last,               \* the latest Canvas call: its arguments and the exception it raised
    called              \* the Canvas operations the client has called

pngvars == <<stream, width, height, dynamic_filtering, image, pc, mark, raised, chunk>>

filtervars == <<arg_scanline, arg_prev_scanline, applied, filtered>>

canvasvars == <<heap, cv, last, called>>

vars == <<pngvars, filtervars, canvasvars>>

----------------------------------------------------------------------------
(* Bounds of the model. *)

MaxWidth == 2
MaxHeight == 2
MaxCalls == 1
MaxLinePixels == 2
MaxDim == 2
MaxOps == 3

(* The pixels images are made of, and the payloads of direct chunk writes. *)
ImagePixels == { <<255, 0, 1>>, <<1, 128, 0>> }
ChunkPayloads == { <<>>, <<255, 1>> }

(* The pixels the scanlines given to the filters are made of. *)
FilterPixels == { <<0, 0, 0>>, <<3, 1, 128>>, <<1, 128, 0>>, <<255, 200, 127>> }

----------------------------------------------------------------------------
(* Byte-level helpers. *)

RECURSIVE Flatten(_)
Flatten(ss) == IF Len(ss) = 0 THEN <<>> ELSE Head(ss) \o Flatten(Tail(ss))

Slice(s, from, to) == [k \in 1..(to - from) |-> s[from + k]]

RECURSIVE SeqsOf(_, _)
SeqsOf(S, n) == IF n = 0 THEN { <<>> }
                ELSE { <<x>> \o t : x \in S, t \in SeqsOf(S, n - 1) }

RECURSIVE XorBits(_, _, _)
XorBits(a, b, n) ==
    IF n = 0 THEN 0
    ELSE 2 * XorBits(a \div 2, b \div 2, n - 1) + ((a + b) % 2)

XorTable == [a \in 0..255 |-> [b \in 0..255 |-> XorBits(a, b, 8)]]

Xor8(a, b) == XorTable[a][b]

Xor16(a, b) == 256 * Xor8(a \div 256, b \div 256) + Xor8(a % 256, b % 256)

(* A 32-bit unsigned value is a pair <<high 16 bits, low 16 bits>>. *)
U32(n) == <<n \div 65536, n % 65536>>

Xor32(u, v) == <<Xor16(u[1], v[1]), Xor16(u[2], v[2])>>

pack_I(u) == <<u[1] \div 256, u[1] % 256, u[2] \div 256, u[2] % 256>>

pack_I4s(n, type) == pack_I(U32(n)) \o [k \in 1..4 |-> IF k <= Len(type) THEN type[k] ELSE 0]

(* zlib.crc32: the reflected CRC-32 with polynomial EDB88320. *)
RECURSIVE CrcBits(_, _)
CrcBits(c, n) ==
    IF n = 0 THEN c
    ELSE LET shifted == <<c[1] \div 2, (c[2] \div 2) + 32768 * (c[1] % 2)>>
         IN  CrcBits(IF c[2] % 2 = 1 THEN Xor32(shifted, <<60856, 33568>>) ELSE shifted,
                     n - 1)

CrcTable == [n \in 0..255 |-> CrcBits(<<0, n>>, 8)]

CrcByte(c, byte) ==
    Xor32(CrcTable[Xor8(c[2] % 256, byte)], <<c[1] \div 256, (c[2] \div 256) + 256 * (c[1] % 256)>>)

(* One table step per byte of data, from byte k on. *)
RECURSIVE CrcUpdate(_, _, _)
CrcUpdate(c, data, k) ==
    IF k > Len(data) THEN c
    ELSE LET n == CrcByte(c, data[k])
         IN  IF n[1] >= 0 THEN CrcUpdate(n, data, k + 1) ELSE n

crc32(data, value) ==
    Xor32(CrcUpdate(Xor32(value, <<65535, 65535>>), data, 1), <<65535, 65535>>)

(* zlib.adler32, the checksum that ends a zlib stream. *)
RECURSIVE AdlerUpdate(_, _, _)
AdlerUpdate(ab, data, k) ==
    IF k > Len(data) THEN ab
    ELSE LET a == (ab[2] + data[k]) % 65521
             b == (ab[1] + a) % 65521
         IN  IF b >= 0 THEN AdlerUpdate(<<b, a>>, data, k + 1) ELSE ab

adler32(data) == AdlerUpdate(<<0, 1>>, data, 1)

(* zlib.compress(data, 9): the zlib header for level 9, the deflate body and *)
(* the Adler-32 of the data.  The deflate body is one stored block, which    *)
(* every inflater decodes to the data; zlib itself may choose Huffman codes. *)
compress(data) ==
    <<120, 218>>
    \o <<1, Len(data) % 256, Len(data) \div 256,
         255 - (Len(data) % 256), 255 - (Len(data) \div 256)>>
    \o data
    \o pack_I(adler32(data))

----------------------------------------------------------------------------
(* The scanline filters.  prev_scanline is a byte string or None. *)

None == <<-1>>

(* "if prev_scanline": None and the empty byte string are both false. *)
Truthy(prev_scanline) == prev_scanline # None /\ Len(prev_scanline) > 0

none_filter(scanline, prev_scanline) == <<0>> \o scanline

sub_filter(scanline, prev_scanline) ==
    <<1>> \o [k \in 1..Len(scanline) |->
                 LET i == k - 1
                     x == scanline[k]
                     a == IF i < 3 THEN 0 ELSE scanline[k - 3]
                 IN  (x - a) % 256]

up_filter(scanline, prev_scanline) ==
    <<2>> \o [k \in 1..Len(scanline) |->
                 LET x == scanline[k]
                     b == IF Truthy(prev_scanline) THEN prev_scanline[k] ELSE 0
                 IN  (x - b) % 256]

(* average_filter with the average rounded up instead of down. *)
average_filter_rounding_up(scanline, prev_scanline) ==
    <<3>> \o [k \in 1..Len(scanline) |->
                 LET i == k - 1
                     x == scanline[k]
                     a == IF i < 3 THEN 0 ELSE scanline[k - 3]
                     b == IF Truthy(prev_scanline) THEN prev_scanline[k] ELSE 0
                     avg == (a + b + 1) \div 2
                 IN  (x - avg) % 256]

average_filter(scanline, prev_scanline) ==
    <<3>> \o [k \in 1..Len(scanline) |->
                 LET i == k - 1
                     x == scanline[k]
                     a == IF i < 3 THEN 0 ELSE scanline[k - 3]
                     b == IF Truthy(prev_scanline) THEN prev_scanline[k] ELSE 0
                     avg == (a + b) \div 2
                 IN  (x - avg) % 256]

Abs(n) == IF n < 0 THEN -n ELSE n

(* PaethPredictor with a strict comparison: a tie of a with c goes to c. *)
PaethPredictorStrict(a, b, c) ==
    LET p == a + b - c
        pa == Abs(p - a)
        pb == Abs(p - b)
        pc_ == Abs(p - c)
    IN  IF pa <= pb /\ pa < pc_ THEN a
        ELSE IF pb <= pc_ THEN b
        ELSE c

PaethPredictor(a, b, c) ==
    LET p == a + b - c
        pa == Abs(p - a)
        pb == Abs(p - b)
        pc_ == Abs(p - c)
    IN  IF pa <= pb /\ pa <= pc_ THEN a
        ELSE IF pb <= pc_ THEN b
        ELSE c

paeth_filter(scanline, prev_scanline) ==
    <<4>> \o [k \in 1..Len(scanline) |->
                 LET i == k - 1
                     x == scanline[k]
                     a == IF i < 3 THEN 0 ELSE scanline[k - 3]
                     b == IF Truthy(prev_scanline) THEN prev_scanline[k] ELSE 0
                     c == IF Truthy(prev_scanline)
                          THEN (IF i < 3 THEN 0 ELSE prev_scanline[k - 3])
                          ELSE 0
                 IN  (x - PaethPredictor(a, b, c)) % 256]

(* filters[n] applied: the list of line 127, in its order. *)
ApplyFilter(n, scanline, prev_scanline) ==
    CASE n = 1 -> none_filter(scanline, prev_scanline)
      [] n = 2 -> sub_filter(scanline, prev_scanline)
      [] n = 3 -> up_filter(scanline, prev_scanline)
      [] n = 4 -> average_filter(scanline, prev_scanline)
      [] n = 5 -> paeth_filter(scanline, prev_scanline)

NumFilters == 5

(* ctypes.c_byte(y).value: the byte read as a signed 8-bit integer. *)
c_byte(y) == IF y < 128 THEN y ELSE y - 256

(* functools.reduce(f, seq) with no initial value: the first element is the *)
(* starting accumulator and f is applied from the second element on.        *)
RECURSIVE ReduceFrom(_, _, _)
ReduceFrom(acc, seq, k) ==
    IF k > Len(seq) THEN acc
    ELSE LET x == acc + Abs(c_byte(seq[k]))
         IN  IF x >= 0 THEN ReduceFrom(x, seq, k + 1) ELSE x

(* The lambda of line 128, for a line with at least one byte after the tag. *)
min_sum_of_abs_diff(line) == ReduceFrom(line[2], line, 3)

(* sorted(results, key=score): a stable insertion sort, ascending. *)
RECURSIVE InsertByScore(_, _)
InsertByScore(sorted, t) ==
    IF Len(sorted) = 0 THEN <<t>>
    ELSE IF t[2] < sorted[Len(sorted)][2]
         THEN InsertByScore(SubSeq(sorted, 1, Len(sorted) - 1), t) \o <<sorted[Len(sorted)]>>
         ELSE sorted \o <<t>>

RECURSIVE SortedByScore(_)
SortedByScore(results) ==
    IF Len(results) = 0 THEN <<>>
    ELSE InsertByScore(SortedByScore(SubSeq(results, 1, Len(results) - 1)),
                       results[Len(results)])

(* The body of the loop of lines 130-142: the line emitted in adaptive mode. *)
AdaptiveLine(line, previous_line) ==
    LET results == [n \in 1..NumFilters |->
                       LET processed_line == ApplyFilter(n, line, previous_line)
                       IN  <<processed_line, min_sum_of_abs_diff(processed_line)>>]
        ranking == SortedByScore(results)
    IN  ranking[1][1]

(* process_image_data: [err |-> the exception raised or NoError, data |-> the result]. *)
NoError == "NoError"

Scanlines(img, w, h) == [n \in 1..h |-> Slice(img, (n - 1) * w * 3, n * w * 3)]

process_image_data(img, w, h, dynamic) ==
    IF Len(img) # w * h * 3
    THEN [err |-> "ValueError: size", data |-> <<>>]
    ELSE IF w * 3 = 0
    THEN [err |-> "ValueError: range", data |-> <<>>]
    ELSE LET scanlines == Scanlines(img, w, h)
             processed == [n \in 1..h |->
                              LET line == scanlines[n]
                                  previous_line == IF n = 1 THEN None ELSE scanlines[n - 1]
                              IN  IF dynamic
                                  THEN AdaptiveLine(line, previous_line)
                                  ELSE paeth_filter(line, previous_line)]
         IN  [err |-> NoError, data |-> compress(Flatten(processed))]

----------------------------------------------------------------------------
(* PngWriter. *)

SIGNATURE == <<137, 80, 78, 71, 13, 10, 26, 10>>
IHDR == <<73, 72, 68, 82>>
IDAT == <<73, 68, 65, 84>>
IEND == <<73, 69, 78, 68>>
acTL == <<97, 99, 84, 76>>

ChunkTypes == { IEND, acTL }

(* ChunkBytes with the checksum taken over the data alone. *)
ChunkBytesCrcOfDataOnly(type, data) ==
    LET head == pack_I4s(Len(data), type)
        tail == pack_I(crc32(data, <<0, 0>>))
    IN  head \o data \o tail

(* The bytes write_chunk writes: head, data, tail. *)
ChunkBytes(type, data) ==
    LET head == pack_I4s(Len(data), type)
        tail == pack_I(crc32(data, crc32(type, <<0, 0>>)))
    IN  head \o data \o tail

(* pack("!2I5b", width, height, 8, 2, 0, 0, 0) *)
IhdrData(w, h) == pack_I(U32(w)) \o pack_I(U32(h)) \o <<8, 2, 0, 0, 0>>

(* The images write_image is called with: rows of alternating pixels, and    *)
(* buffers one byte too long or one byte too short.                          *)
ImageRows(w) ==
    { Flatten([k \in 1..w |-> IF k % 2 = 1 THEN pq[1] ELSE pq[2]]) :
          pq \in { t \in ImagePixels \X ImagePixels : t[1] # t[2] } }

Images(w, h) ==
    LET fit == { Flatten(rows) : rows \in SeqsOf(ImageRows(w), h) }
    IN  fit
        \cup { img \o <<7>> : img \in fit }
        \cup { SubSeq(img, 1, Len(img) - 1) : img \in { f \in fit : Len(f) > 0 } }

(* The client's view of the canvases: no canvas made, no call made. *)
NoCanvas == [width |-> -1, height |-> -1, bgcolor |-> 0, canvas |-> <<>>]

CanvasNames == {"C", "R", "D", "S"}

Call(op, dst, src, x, y, w, h, ign, err) ==
    [op |-> op, dst |-> dst, src |-> src, x |-> x, y |-> y, w |-> w, h |-> h,
     ign |-> ign, err |-> err]

NoCall == Call("none", "", "", 0, 0, 0, 0, FALSE, NoError)

InitPng ==
    /\ stream = <<>>
    /\ width \in 0..MaxWidth
    /\ height \in 0..MaxHeight
    /\ dynamic_filtering \in BOOLEAN
    /\ image = <<>>
    /\ pc = "idle"
    /\ mark = 0
    /\ raised = NoError
    /\ chunk = [type |-> <<>>, data |-> <<>>, at |-> 0, calls |-> 0]
    /\ arg_scanline = <<>>
    /\ arg_prev_scanline = None
    /\ applied = "none"
    /\ filtered = <<>>
    /\ heap = <<>>
    /\ cv = [n \in CanvasNames |-> NoCanvas]
    /\ last = NoCall
    /\ called = {}

(* write_chunk(type, data), as every caller runs it. *)
write_chunk(type, data) ==
    /\ stream' = stream \o ChunkBytes(type, data)
    /\ chunk' = [type |-> type, data |-> data, at |-> Len(stream), calls |-> chunk.calls]

(* A direct call of write_chunk by the client, before write_image. *)
WriteChunkCall(type, data) ==
    /\ pc = "idle"
    /\ chunk.calls < MaxCalls
    /\ stream' = stream \o ChunkBytes(type, data)
    /\ chunk' = [type |-> type, data |-> data, at |-> Len(stream), calls |-> chunk.calls + 1]
    /\ UNCHANGED <<width, height, dynamic_filtering, image, pc, mark, raised>>
    /\ UNCHANGED <<filtervars, canvasvars>>

(* The client calls write_image(img). *)
write_image(img) ==
    /\ pc = "idle"
    /\ pc' = "write_signature"
    /\ image' = img
    /\ mark' = Len(stream)
    /\ UNCHANGED <<stream, width, height, dynamic_filtering, raised, chunk>>
    /\ UNCHANGED <<filtervars, canvasvars>>

(* write_signature on a sink that was rewound: the signature replaces what was there. *)
write_signature_rewound ==
    /\ pc = "write_signature"
    /\ stream' = SIGNATURE
    /\ pc' = "write_ihdr"
    /\ UNCHANGED <<width, height, dynamic_filtering, image, mark, raised, chunk>>
    /\ UNCHANGED <<filtervars, canvasvars>>

write_signature ==
    /\ pc = "write_signature"
    /\ stream' = stream \o SIGNATURE
    /\ pc' = "write_ihdr"
    /\ UNCHANGED <<width, height, dynamic_filtering, image, mark, raised, chunk>>
    /\ UNCHANGED <<filtervars, canvasvars>>

write_ihdr ==
    /\ pc = "write_ihdr"
    /\ write_chunk(IHDR, IhdrData(width, height))
    /\ pc' = "write_idat"
    /\ UNCHANGED <<width, height, dynamic_filtering, image, mark, raised>>
    /\ UNCHANGED <<filtervars, canvasvars>>

write_idat ==
    /\ pc = "write_idat"
    /\ LET r == process_image_data(image, width, height, dynamic_filtering)
       IN  IF r.err # NoError
           THEN /\ raised' = r.err
                /\ pc' = "raised"
                /\ UNCHANGED <<stream, chunk>>
           ELSE /\ write_chunk(IDAT, r.data)
                /\ pc' = "write_iend"
                /\ UNCHANGED raised
    /\ UNCHANGED <<width, height, dynamic_filtering, image, mark>>
    /\ UNCHANGED <<filtervars, canvasvars>>

write_iend ==
    /\ pc = "write_iend"
    /\ write_chunk(IEND, <<>>)
    /\ pc' = "done"
    /\ UNCHANGED <<width, height, dynamic_filtering, image, mark, raised>>
    /\ UNCHANGED <<filtervars, canvasvars>>

NextPng ==
    \/ /\ pc = "idle"
       /\ \E type \in ChunkTypes, data \in ChunkPayloads : WriteChunkCall(type, data)
    \/ /\ pc = "idle"
       /\ \E img \in Images(width, height) : write_image(img)
    \/ write_signature
    \/ write_ihdr
    \/ write_idat
    \/ write_iend

----------------------------------------------------------------------------
(* The filters as operations: one call of a filter, or of the adaptive      *)
(* choice, on a scanline and a previous scanline of the same length.        *)

Lines(n) == { Flatten(ps) : ps \in SeqsOf(FilterPixels, n) }

InitFilter ==
    /\ \E n \in 0..MaxLinePixels :
          /\ arg_scanline \in Lines(n)
          /\ arg_prev_scanline \in Lines(n) \cup {None}
    /\ applied = "none"
    /\ filtered = <<>>
    /\ stream = <<>>
    /\ width = 0
    /\ height = 0
    /\ dynamic_filtering = TRUE
    /\ image = <<>>
    /\ pc = "idle"
    /\ mark = 0
    /\ raised = NoError
    /\ chunk = [type |-> <<>>, data |-> <<>>, at |-> 0, calls |-> 0]
    /\ heap = <<>>
    /\ cv = [n \in CanvasNames |-> NoCanvas]
    /\ last = NoCall
    /\ called = {}

CallFilter(name, result) ==
    /\ applied = "none"
    /\ applied' = name
    /\ filtered' = result
    /\ UNCHANGED <<arg_scanline, arg_prev_scanline>>
    /\ UNCHANGED <<pngvars, canvasvars>>

call_none_filter == CallFilter("none_filter", none_filter(arg_scanline, arg_prev_scanline))

call_sub_filter == CallFilter("sub_filter", sub_filter(arg_scanline, arg_prev_scanline))

call_up_filter == CallFilter("up_filter", up_filter(arg_scanline, arg_prev_scanline))

call_average_filter == CallFilter("average_filter", average_filter(arg_scanline, arg_prev_scanline))

call_paeth_filter == CallFilter("paeth_filter", paeth_filter(arg_scanline, arg_prev_scanline))

(* One pass of the adaptive loop; its lines are width * 3 > 0 bytes long. *)
call_adaptive ==
    /\ Len(arg_scanline) > 0
    /\ CallFilter("adaptive", AdaptiveLine(arg_scanline, arg_prev_scanline))

NextFilter ==
    \/ call_none_filter
    \/ call_sub_filter
    \/ call_up_filter
    \/ call_average_filter
    \/ call_paeth_filter
    \/ call_adaptive

----------------------------------------------------------------------------
(* Channel values.  A float is modelled by the exact rational <<n, d>> in    *)
(* lowest terms, d > 0: rounding is left out.                                *)

RECURSIVE GCD(_, _)
GCD(a, b) == IF b = 0 THEN a ELSE GCD(b, a % b)

Q(n, d) == LET g == GCD(Abs(n), d) IN <<n \div g, d \div g>>

QAdd(a, b) == Q(a[1] * b[2] + b[1] * a[2], a[2] * b[2])
QSub(a, b) == Q(a[1] * b[2] - b[1] * a[2], a[2] * b[2])
QMul(a, b) == Q(a[1] * b[1], a[2] * b[2])
QDiv(a, b) == Q(a[1] * b[2], a[2] * b[1])
QLess(a, b) == a[1] * b[2] < b[1] * a[2]
QGeq(a, b) == a[1] * b[2] >= b[1] * a[2]

Q0 == Q(0, 1)
Q1 == Q(1, 1)

(* The thresholds of blend. *)
OpaqueAlpha == Q(999999, 1000000)
TransparentAlpha == Q(1, 1000000)

(* RgbaColor(r, g, b, a) *)
RgbaColor(r, g, b, a) == [r |-> r, g |-> g, b |-> b, a |-> a]

----------------------------------------------------------------------------
(* The heap of RgbaColor objects.  An object is its index in heap; an       *)
(* object no canvas refers to is collected and its index is used again.     *)

Free == [r |-> Q(-1, 1), g |-> Q(-1, 1), b |-> Q(-1, 1), a |-> Q(-1, 1)]

(* copy(color): a new object with the fields of value. *)
NewId(h) ==
    IF \E i \in 1..Len(h) : h[i] = Free
    THEN CHOOSE i \in 1..Len(h) : h[i] = Free /\ \A j \in 1..(i - 1) : h[j] # Free
    ELSE Len(h) + 1

Alloc(h, value) ==
    LET id == NewId(h)
    IN  [heap |-> IF id > Len(h) THEN Append(h, value) ELSE [h EXCEPT ![id] = value],
         id |-> id]

(* One new object per value, in order. *)
RECURSIVE AllocAll(_, _, _, _)
AllocAll(h, values, k, ids) ==
    IF k > Len(values) THEN [heap |-> h, ids |-> ids]
    ELSE LET r == Alloc(h, values[k])
         IN  IF r.id > 0 THEN AllocAll(r.heap, values, k + 1, Append(ids, r.id)) ELSE r

CopyAllShared(h, from) == [heap |-> h, ids |-> from]

(* [copy(color) for color in from] *)
CopyAll(h, from) == AllocAll(h, [k \in 1..Len(from) |-> h[from[k]]], 1, <<>>)

Referenced(canvases) ==
    UNION { {canvases[n].bgcolor} \cup { canvases[n].canvas[k] : k \in 1..Len(canvases[n].canvas) } :
                n \in { m \in CanvasNames : canvases[m] # NoCanvas } }

RECURSIVE Trim(_)
Trim(h) == IF Len(h) > 0 /\ h[Len(h)] = Free THEN Trim(SubSeq(h, 1, Len(h) - 1)) ELSE h

(* Reference counting: the objects no canvas refers to any more are freed. *)
Collect(h, canvases) ==
    Trim([i \in 1..Len(h) |-> IF i \in Referenced(canvases) THEN h[i] ELSE Free])

----------------------------------------------------------------------------
(* Canvas. *)

PixelCountOfOneRow(w, h) == IF w > 0 THEN w ELSE 0

(* len(range(w * h)) *)
PixelCount(w, h) == IF w * h > 0 THEN w * h ELSE 0

(* Canvas(width, height, bgcolor): __init__, which calls clear. *)
NewCanvas(h, w, ht, bgcolor) ==
    LET r == CopyAll(h, [k \in 1..PixelCount(w, ht) |-> bgcolor])
    IN  [heap |-> r.heap,
         canvas |-> [width |-> w, height |-> ht, bgcolor |-> bgcolor, canvas |-> r.ids]]

OutOfBounds(c, x, y) == x < 0 \/ x > c.width - 1 \/ y < 0 \/ y > c.height - 1

coordinate_to_index(c, x, y) == x + c.width * y

(* c.at(x, y), for coordinates that are in bounds: the object there. *)
at(c, x, y) == c.canvas[coordinate_to_index(c, x, y) + 1]

(* name.clear() *)
clear(name) ==
    /\ cv[name] # NoCanvas
    /\ LET c == cv[name]
           r == CopyAll(heap, [k \in 1..PixelCount(c.width, c.height) |-> c.bgcolor])
           after == [cv EXCEPT ![name].canvas = r.ids]
       IN  /\ cv' = after
           /\ heap' = Collect(r.heap, after)
    /\ last' = Call("clear", name, "", 0, 0, 0, 0, FALSE, NoError)
    /\ called' = called \cup {"clear"}
    /\ UNCHANGED <<pngvars, filtervars>>

(* to = name.copy() *)
copy(name, to) ==
    /\ cv[name] # NoCanvas
    /\ LET self == cv[name]
           c == NewCanvas(heap, self.width, self.height, self.bgcolor)
           r == CopyAll(c.heap, self.canvas)
           after == [cv EXCEPT ![to] = [c.canvas EXCEPT !.canvas = r.ids]]
       IN  /\ cv' = after
           /\ heap' = Collect(r.heap, after)
    /\ last' = Call("copy", to, name, 0, 0, 0, 0, FALSE, NoError)
    /\ called' = called \cup {"copy"}
    /\ UNCHANGED <<pngvars, filtervars>>

RectErrorWithoutSizeTest(self, x, y, w, h) ==
    IF x < 0 \/ x > self.width - 1 \/ y < 0 \/ y > self.height - 1
    THEN "ValueError: x or y coordinates out of bounds."
    ELSE IF x + w > self.width \/ y + h > self.height
    THEN "ValueError: The rectangle does not fit into the image."
    ELSE NoError

RectError(self, x, y, w, h) ==
    IF x < 0 \/ x > self.width - 1 \/ y < 0 \/ y > self.height - 1
    THEN "ValueError: x or y coordinates out of bounds."
    ELSE IF w < 0 \/ h < 0
    THEN "ValueError: Width and height must be positive."
    ELSE IF x + w > self.width \/ y + h > self.height
    THEN "ValueError: The rectangle does not fit into the image."
    ELSE NoError

(* len(range(n)) *)
RangeLen(n) == IF n > 0 THEN n ELSE 0

(* to = name.rect(x, y, w, h) *)
rect(name, to, x, y, w, h) ==
    /\ cv[name] # NoCanvas
    /\ LET self == cv[name]
           err == RectError(self, x, y, w, h)
           cells == RangeLen(w) * RangeLen(h)
           AtX(target_i) == x + (target_i % w)
           AtY(target_i) == y + (target_i \div w)
       IN  IF err # NoError
           THEN /\ last' = Call("rect", to, name, x, y, w, h, FALSE, err)
                /\ UNCHANGED <<heap, cv>>
           ELSE IF \E target_i \in 0..(cells - 1) : OutOfBounds(self, AtX(target_i), AtY(target_i))
           THEN /\ last' = Call("rect", to, name, x, y, w, h, FALSE,
                                 "ValueError: x or y coordinates out of bounds.")
                /\ UNCHANGED <<heap, cv>>
           ELSE LET bg == Alloc(heap, heap[self.bgcolor])
                    c == NewCanvas(bg.heap, w, h, bg.id)
                    r == CopyAll(c.heap, [k \in 1..cells |-> at(self, AtX(k - 1), AtY(k - 1))])
                    pixels == [k \in 1..Len(c.canvas.canvas) |->
                                  IF k <= cells THEN r.ids[k] ELSE c.canvas.canvas[k]]
                    after == [cv EXCEPT ![to] = [c.canvas EXCEPT !.canvas = pixels]]
                IN  /\ cv' = after
                    /\ heap' = Collect(r.heap, after)
                    /\ last' = Call("rect", to, name, x, y, w, h, FALSE, NoError)
    /\ called' = called \cup {"rect"}
    /\ UNCHANGED <<pngvars, filtervars>>

(* One pass of the loop of blend for an in-bounds target: the assignments   *)
(* to dst_color's fields, in the order of the code.                         *)
BlendPixel(h, dst, src, ignore_src_alpha) ==
    IF ignore_src_alpha \/ QGeq(h[src].a, OpaqueAlpha)
    THEN LET h1 == [h EXCEPT ![dst].r = h[src].r]
             h2 == [h1 EXCEPT ![dst].g = h1[src].g]
             h3 == [h2 EXCEPT ![dst].b = h2[src].b]
             h4 == [h3 EXCEPT ![dst].a = h3[src].a]
         IN  [heap |-> h4, err |-> NoError]
    ELSE LET new_alpha == QAdd(h[src].a, QMul(h[dst].a, QSub(Q1, h[src].a)))
             Over(g, s, d) == QDiv(QAdd(QMul(s, g[src].a),
                                        QMul(QMul(d, g[dst].a), QSub(Q1, g[src].a))),
                                   new_alpha)
         IN  IF new_alpha = Q0
             THEN [heap |-> h, err |-> "ZeroDivisionError"]
             ELSE LET h1 == [h EXCEPT ![dst].r = Over(h, h[src].r, h[dst].r)]
                      h2 == [h1 EXCEPT ![dst].g = Over(h1, h1[src].g, h1[dst].g)]
                      h3 == [h2 EXCEPT ![dst].b = Over(h2, h2[src].b, h2[dst].b)]
                      h4 == [h3 EXCEPT ![dst].a = new_alpha]
                  IN  IF QLess(h4[dst].a, TransparentAlpha)
                      THEN [heap |-> [h4 EXCEPT ![dst] = RgbaColor(Q0, Q0, Q0, Q0)],
                            err |-> NoError]
                      ELSE [heap |-> h4, err |-> NoError]

(* list[i] of Python: a negative index counts from the end of the list. *)
IndexError(list, i) == i < 0 - Len(list) \/ i >= Len(list)

ListItem(list, i) == list[(i % Len(list)) + 1]

ClippedVertically(self, target_x, target_y) ==
    target_y < 0 \/ target_y > self.height - 1

ClippedOneEarly(self, target_x, target_y) ==
    \/ target_x < 0 \/ target_x >= self.width - 1
    \/ target_y < 0 \/ target_y >= self.height - 1

(* The test of blend that skips a source pixel. *)
Clipped(self, target_x, target_y) ==
    \/ target_x < 0 \/ target_x > self.width - 1
    \/ target_y < 0 \/ target_y > self.height - 1

(* The loop of blend from source pixel i on (0-based), until it ends or raises. *)
RECURSIVE BlendFrom(_, _, _, _, _, _, _)
BlendFrom(h, self, src, offset_x, offset_y, ignore_src_alpha, i) ==
    IF i >= Len(src.canvas) THEN [heap |-> h, err |-> NoError]
    ELSE LET src_x == i % src.width
             src_y == i \div src.width
             target_x == offset_x + src_x
             target_y == offset_y + src_y
         IN  IF Clipped(self, target_x, target_y)
             THEN BlendFrom(h, self, src, offset_x, offset_y, ignore_src_alpha, i + 1)
             ELSE IF IndexError(self.canvas, target_y * self.width + target_x)
             THEN [heap |-> h, err |-> "IndexError"]
             ELSE LET r == BlendPixel(h, ListItem(self.canvas, target_y * self.width + target_x),
                                      src.canvas[i + 1], ignore_src_alpha)
                  IN  IF r.err # NoError THEN r
                      ELSE BlendFrom(r.heap, self, src, offset_x, offset_y,
                                     ignore_src_alpha, i + 1)

(* name.blend(from, offset_x, offset_y, ignore_src_alpha) *)
blend(name, from, offset_x, offset_y, ignore_src_alpha) ==
    /\ cv[name] # NoCanvas
    /\ cv[from] # NoCanvas
    /\ LET r == BlendFrom(heap, cv[name], cv[from], offset_x, offset_y, ignore_src_alpha, 0)
       IN  /\ heap' = r.heap
           /\ last' = Call("blend", name, from, offset_x, offset_y, 0, 0, ignore_src_alpha, r.err)
    /\ called' = called \cup {"blend"}
    /\ UNCHANGED cv
    /\ UNCHANGED <<pngvars, filtervars>>

(* The threshold of bytes. *)
FlattenAlpha == Q(999, 1000)

(* floor(value * 255) *)
Floor255(value) == (value[1] * 255) \div value[2]

(* The three bytes bytes() packs for one pixel of a canvas with background bg. *)
PixelBytes(color, bg) ==
    IF QGeq(color.a, FlattenAlpha)
    THEN <<Floor255(color.r), Floor255(color.g), Floor255(color.b)>>
    ELSE LET Flat(c, b) == Floor255(QAdd(QMul(c, color.a), QMul(b, QSub(Q1, color.a))))
         IN  <<Flat(color.r, bg.r), Flat(color.g, bg.g), Flat(color.b, bg.b)>>

(* name.bytes(): the canvas is read, not written. *)
bytes(name) ==
    /\ cv[name] # NoCanvas
    /\ LET self == cv[name]
           data == Flatten([i \in 1..Len(self.canvas) |->
                               PixelBytes(heap[self.canvas[i]], heap[self.bgcolor])])
       IN  last' = [op |-> "bytes", dst |-> name, src |-> "", x |-> 0, y |-> 0, w |-> 0,
                    h |-> 0, ign |-> FALSE, err |-> NoError, ret |-> data]
    /\ called' = called \cup {"bytes"}
    /\ UNCHANGED <<heap, cv>>
    /\ UNCHANGED <<pngvars, filtervars>>

(* The colour import makes of the bytes of data from offset i (0-based):    *)
(* three channels and alpha 1.0, or four channels.                         *)
Unpacked(data, i, size) ==
    RgbaColor(Q(data[i + 1], 255), Q(data[i + 2], 255), Q(data[i + 3], 255),
              IF size = 4 THEN Q(data[i + 4], 255) ELSE Q1)

(* The loop of import_rgb_data (size 3) and import_rgba_data (size 4) from  *)
(* offset i on, until it ends or raises.                                   *)
RECURSIVE ImportFrom(_, _, _, _, _)
ImportFrom(h, pixels, data, size, i) ==
    IF i >= Len(data) THEN [heap |-> h, canvas |-> pixels, err |-> NoError]
    ELSE IF i + size > Len(data)
    THEN [heap |-> h, canvas |-> pixels, err |-> "struct.error"]
    ELSE IF IndexError(pixels, i \div size)
    THEN [heap |-> h, canvas |-> pixels, err |-> "IndexError"]
    ELSE LET r == Alloc(h, Unpacked(data, i, size))
         IN  IF r.id > 0
             THEN ImportFrom(r.heap, [pixels EXCEPT ![(i \div size) + 1] = r.id],
                             data, size, i + size)
             ELSE [heap |-> h, canvas |-> pixels, err |-> NoError]

Import(op, name, data, size) ==
    /\ cv[name] # NoCanvas
    /\ LET r == ImportFrom(heap, cv[name].canvas, data, size, 0)
           after == [cv EXCEPT ![name].canvas = r.canvas]
       IN  /\ cv' = after
           /\ heap' = Collect(r.heap, after)
           /\ last' = [op |-> op, dst |-> name, src |-> "", x |-> 0, y |-> 0, w |-> 0,
                        h |-> 0, ign |-> FALSE, err |-> r.err, data |-> data]
    /\ called' = called \cup {op}
    /\ UNCHANGED <<pngvars, filtervars>>

(* name.import_rgb_data(data) *)
import_rgb_data(name, data) == Import("import_rgb_data", name, data, 3)

(* name.import_rgba_data(data) *)
import_rgba_data(name, data) == Import("import_rgba_data", name, data, 4)

----------------------------------------------------------------------------
(* The canvases the operations are run on. *)

QHalf == Q(1, 2)

Clear == RgbaColor(Q0, Q0, Q0, Q0)
Red == RgbaColor(Q1, Q0, Q0, Q1)
Blue == RgbaColor(Q0, QHalf, Q1, Q1)
HalfGreen == RgbaColor(Q0, Q1, QHalf, QHalf)

(* <<background, pixel 0, pixel 1, pixel 2>>: the pixels repeat in row-major order. *)
Patterns ==
    { <<Clear, Red, HalfGreen, Blue>>,
      <<Red, HalfGreen, Clear, Blue>>,
      <<HalfGreen, Clear, Red, HalfGreen>>,
      <<Blue, Red, Blue, Red>>,
      <<Clear, Clear, Clear, Clear>> }

(* A canvas of the pattern: Canvas(w, ht, background), then its pixels set. *)
Painted(h, w, ht, pattern) ==
    LET bg == Alloc(h, pattern[1])
        r == AllocAll(bg.heap, [k \in 1..(w * ht) |-> pattern[2 + ((k - 1) % 3)]], 1, <<>>)
    IN  [heap |-> r.heap,
         canvas |-> [width |-> w, height |-> ht, bgcolor |-> bg.id, canvas |-> r.ids]]

Offsets == (0 - MaxDim)..MaxDim

(* A destination D and a source S; one blend call. *)
InitBlend ==
    /\ \E dw, dh, sw, sh \in 1..MaxDim, dp, sp \in Patterns :
          LET d == Painted(<<>>, dw, dh, dp)
              s_ == Painted(d.heap, sw, sh, sp)
          IN  /\ heap = s_.heap
              /\ cv = [n \in CanvasNames |->
                          IF n = "D" THEN d.canvas ELSE IF n = "S" THEN s_.canvas ELSE NoCanvas]
    /\ last = NoCall
    /\ called = {}
    /\ stream = <<>>
    /\ width = 0
    /\ height = 0
    /\ dynamic_filtering = TRUE
    /\ image = <<>>
    /\ pc = "idle"
    /\ mark = 0
    /\ raised = NoError
    /\ chunk = [type |-> <<>>, data |-> <<>>, at |-> 0, calls |-> 0]
    /\ arg_scanline = <<>>
    /\ arg_prev_scanline = None
    /\ applied = "none"
    /\ filtered = <<>>

BlendOnto ==
    /\ "blend" \notin called
    /\ \E offset_x, offset_y \in Offsets, ignore_src_alpha \in BOOLEAN :
          blend("D", "S", offset_x, offset_y, ignore_src_alpha)

BlendOntoItself ==
    /\ "blend" \notin called
    /\ \E offset_x, offset_y \in Offsets, ignore_src_alpha \in BOOLEAN :
          blend("D", "D", offset_x, offset_y, ignore_src_alpha)

NextBlend ==
    \/ BlendOnto
    \/ BlendOntoItself

(* A canvas C; R = C.rect(...), D = C.copy(), D.clear(), D.blend(R, ...). *)
InitRect ==
    /\ \E w, h \in 1..MaxDim, p \in Patterns :
          LET c == Painted(<<>>, w, h, p)
          IN  /\ heap = c.heap
              /\ cv = [n \in CanvasNames |-> IF n = "C" THEN c.canvas ELSE NoCanvas]
    /\ last = NoCall
    /\ called = {}
    /\ stream = <<>>
    /\ width = 0
    /\ height = 0
    /\ dynamic_filtering = TRUE
    /\ image = <<>>
    /\ pc = "idle"
    /\ mark = 0
    /\ raised = NoError
    /\ chunk = [type |-> <<>>, data |-> <<>>, at |-> 0, calls |-> 0]
    /\ arg_scanline = <<>>
    /\ arg_prev_scanline = None
    /\ applied = "none"
    /\ filtered = <<>>

TakeRect ==
    /\ "rect" \notin called
    /\ \E x, y \in (0 - 1)..MaxDim, w, h \in (0 - 1)..(MaxDim + 1) :
          rect("C", "R", x, y, w, h)

TakeCopy ==
    /\ "copy" \notin called
    /\ copy("C", "D")

ClearCopy ==
    /\ "clear" \notin called
    /\ clear("D")

BlendRect ==
    /\ "blend" \notin called
    /\ \E offset_x, offset_y \in 0..(MaxDim - 1), ignore_src_alpha \in BOOLEAN :
          blend("D", "R", offset_x, offset_y, ignore_src_alpha)

NextRect ==
    \/ TakeRect
    \/ TakeCopy
    \/ ClearCopy
    \/ BlendRect

(* The byte buffers given to import: a run of n bytes of a repeating sequence. *)
SomeBytes == <<255, 0, 51, 255, 51, 0, 255>>

Buffer(start, n) == [k \in 1..n |-> SomeBytes[((start + k - 1) % Len(SomeBytes)) + 1]]

Buffers == { Buffer(start, n) : start \in {0, 3}, n \in 0..(4 * MaxDim * MaxDim + 4) }

(* A canvas C; one import call. *)
InitImport ==
    /\ \E w, h \in 1..MaxDim, p \in Patterns :
          LET c == Painted(<<>>, w, h, p)
          IN  /\ heap = c.heap
              /\ cv = [n \in CanvasNames |-> IF n = "C" THEN c.canvas ELSE NoCanvas]
    /\ last = NoCall
    /\ called = {}
    /\ stream = <<>>
    /\ width = 0
    /\ height = 0
    /\ dynamic_filtering = TRUE
    /\ image = <<>>
    /\ pc = "idle"
    /\ mark = 0
    /\ raised = NoError
    /\ chunk = [type |-> <<>>, data |-> <<>>, at |-> 0, calls |-> 0]
    /\ arg_scanline = <<>>
    /\ arg_prev_scanline = None
    /\ applied = "none"
    /\ filtered = <<>>

ImportRgb ==
    /\ called = {}
    /\ \E data \in Buffers : import_rgb_data("C", data)

ImportRgba ==
    /\ called = {}
    /\ \E data \in Buffers : import_rgba_data("C", data)

NextImport ==
    \/ ImportRgb
    \/ ImportRgba

(* A canvas C and calls in any order, each operation at most once:          *)
(* R = C.rect(...), D = C.copy(), and clear, blend, import_rgb_data,        *)
(* import_rgba_data and bytes on any of the canvases.                       *)
InitCanvas ==
    /\ \E w, h \in 1..MaxDim :
          LET c == Painted(<<>>, w, h, <<Clear, Red, HalfGreen, Blue>>)
          IN  /\ heap = c.heap
              /\ cv = [n \in CanvasNames |-> IF n = "C" THEN c.canvas ELSE NoCanvas]
    /\ last = NoCall
    /\ called = {}
    /\ stream = <<>>
    /\ width = 0
    /\ height = 0
    /\ dynamic_filtering = TRUE
    /\ image = <<>>
    /\ pc = "idle"
    /\ mark = 0
    /\ raised = NoError
    /\ chunk = [type |-> <<>>, data |-> <<>>, at |-> 0, calls |-> 0]
    /\ arg_scanline = <<>>
    /\ arg_prev_scanline = None
    /\ applied = "none"
    /\ filtered = <<>>

Made == { n \in {"C", "R", "D"} : cv[n] # NoCanvas }

(* <<x, y, w, h>>: a rectangle that fits, one that may, and two that do not. *)
Rectangles == { <<0, 0, 1, 1>>, <<0, 0, 1, MaxDim>>, <<0, 0, MaxDim + 1, 1>>, <<0 - 1, 0, 1, 1>> }

CallRect ==
    /\ Cardinality(called) < MaxOps
    /\ "rect" \notin called
    /\ \E a \in Rectangles : rect("C", "R", a[1], a[2], a[3], a[4])

CallCopy ==
    /\ Cardinality(called) < MaxOps
    /\ "copy" \notin called
    /\ copy("C", "D")

CallClear ==
    /\ Cardinality(called) < MaxOps
    /\ "clear" \notin called
    /\ \E n \in Made : clear(n)

CallBlend ==
    /\ Cardinality(called) < MaxOps
    /\ "blend" \notin called
    /\ \E n \in Made, from \in Made, offset_x \in {0 - 1, 0}, ignore_src_alpha \in BOOLEAN :
          /\ n # from
          /\ blend(n, from, offset_x, 0, ignore_src_alpha)

(* A buffer of one whole pixel, of one pixel and a byte, of the canvas's    *)
(* size, and of one pixel more than the canvas holds.                       *)
BufferLengths(n, size) ==
    { size, size + 1, size * Len(cv[n].canvas), size * (Len(cv[n].canvas) + 1) }

CallImportRgb ==
    /\ Cardinality(called) < MaxOps
    /\ "import_rgb_data" \notin called
    /\ \E n \in Made : \E len \in BufferLengths(n, 3) : import_rgb_data(n, Buffer(0, len))

CallImportRgba ==
    /\ Cardinality(called) < MaxOps
    /\ "import_rgba_data" \notin called
    /\ \E n \in Made : \E len \in BufferLengths(n, 4) : import_rgba_data(n, Buffer(3, len))

CallBytes ==
    /\ Cardinality(called) < MaxOps
    /\ "bytes" \notin called
    /\ \E n \in Made : bytes(n)

NextCanvas ==
    \/ CallRect
    \/ CallCopy
    \/ CallClear
    \/ CallBlend
    \/ CallImportRgb
    \/ CallImportRgba
    \/ CallBytes

----------------------------------------------------------------------------
(* The specifications. *)

SpecPng == InitPng /\ [][NextPng]_vars

SpecFilter == InitFilter /\ [][NextFilter]_vars

SpecBlend == InitBlend /\ [][NextBlend]_vars

SpecRect == InitRect /\ [][NextRect]_vars

SpecImport == InitImport /\ [][NextImport]_vars

SpecCanvas == InitCanvas /\ [][NextCanvas]_vars

----------------------------------------------------------------------------
(* Reading the sink back: the chunks of a byte string, from byte k on. *)

BigEndian(b, k) == ((b[k] * 256 + b[k + 1]) * 256 + b[k + 2]) * 256 + b[k + 3]

Unreadable == [type |-> <<>>, data |-> <<>>, crc |-> <<>>]

RECURSIVE ParseChunks(_, _)
ParseChunks(b, k) ==
    IF k > Len(b) THEN <<>>
    ELSE IF k + 11 > Len(b) \/ b[k] # 0 THEN <<Unreadable>>
    ELSE LET n == BigEndian(b, k)
         IN  IF k + 11 + n > Len(b) THEN <<Unreadable>>
             ELSE <<[type |-> Slice(b, k + 3, k + 7),
                     data |-> Slice(b, k + 7, k + 7 + n),
                     crc |-> Slice(b, k + 7 + n, k + 11 + n)]>>
                  \o ParseChunks(b, k + 12 + n)

(* What write_image has appended so far, as the signature (if it is there)  *)
(* followed by the type of every chunk after it.                            *)
Appended == SubSeq(stream, mark + 1, Len(stream))

Layout ==
    IF Len(Appended) = 0 THEN <<>>
    ELSE IF Len(Appended) < 8 \/ SubSeq(Appended, 1, 8) # <<137, 80, 78, 71, 13, 10, 26, 10>>
    THEN <<Unreadable.type>>
    ELSE LET cs == ParseChunks(Appended, 9)
         IN  <<"signature">> \o [n \in 1..Len(cs) |-> cs[n].type]

LastChunk == LET cs == ParseChunks(Appended, 9) IN cs[Len(cs)]

IsPrefix(s, t) == Len(s) <= Len(t) /\ SubSeq(t, 1, Len(s)) = s

WriteImageStages ==
    /\ pc = "write_signature" => Layout = <<>>
    /\ pc = "write_ihdr" => Layout = <<"signature">>
    /\ pc \in {"write_idat", "raised"} => Layout = <<"signature", <<73, 72, 68, 82>> >>
    /\ pc = "write_iend" => Layout = <<"signature", <<73, 72, 68, 82>>, <<73, 68, 65, 84>> >>
    /\ pc = "done" =>
          /\ Layout = <<"signature", <<73, 72, 68, 82>>, <<73, 68, 65, 84>>, <<73, 69, 78, 68>> >>
          /\ LastChunk.data = <<>>

(* C1 (as amended): for a PngWriter of width >= 1 and a buffer of exactly     *)
(* width*height*3 bytes, write_image does not raise and appends, in this      *)
(* order and once each, the 8-byte signature, an IHDR chunk, an IDAT chunk    *)
(* and an IEND chunk with an empty payload, and nothing else; no step changes *)
(* or removes a byte that is already in the sink.                             *)
C1_WriteImageLayout ==
    /\ [](WriteImageStages)
    /\ []((width >= 1 /\ Len(image) = width * height * 3) => pc # "raised")
    /\ [][IsPrefix(stream, stream')]_vars

(* C1 witness: write_image has finished on a sink that already held bytes,  *)
(* for an image of at least one pixel; the sink ends with the IEND chunk.   *)
C1_Witness ==
    /\ pc = "done"
    /\ mark > 0
    /\ width >= 1
    /\ height >= 1
    /\ Len(stream) > mark + 8 + 25 + 12
    /\ SubSeq(stream, Len(stream) - 11, Len(stream))
           = <<0, 0, 0, 0, 73, 69, 78, 68, 174, 66, 96, 130>>

(* C1 as stated: the same for any PngWriter, a width of 0 included: once    *)
(* write_image has ended on a buffer of exactly width*height*3 bytes, the   *)
(* signature and the three chunks are what it appended.                     *)
C1_AnyWriter ==
    (pc \in {"done", "raised"} /\ Len(image) = width * height * 3) =>
        /\ pc = "done"
        /\ Layout = <<"signature", <<73, 72, 68, 82>>, <<73, 68, 65, 84>>, <<73, 69, 78, 68>> >>
        /\ LastChunk.data = <<>>

(* C2: a write_chunk call appends exactly 12 + len(payload) bytes: the       *)
(* payload length as 4 big-endian bytes, the 4 type bytes, the payload, and  *)
(* the 4 big-endian bytes of the CRC-32 of type || payload.                  *)
C2_ChunkFraming ==
    [][chunk' # chunk =>
          LET n == Len(chunk'.data)
              a == SubSeq(stream', Len(stream) + 1, Len(stream'))
          IN  /\ IsPrefix(stream, stream')
              /\ chunk'.at = Len(stream)
              /\ Len(a) = 12 + n
              /\ SubSeq(a, 1, 4) = <<n \div 16777216, (n \div 65536) % 256, (n \div 256) % 256, n % 256>>
              /\ SubSeq(a, 5, 8) = chunk'.type
              /\ SubSeq(a, 9, 8 + n) = chunk'.data
              /\ SubSeq(a, 9 + n, 12 + n) = pack_I(crc32(chunk'.type \o chunk'.data, <<0, 0>>))]_vars

(* C2 witness: the IDAT chunk, with a payload that is not empty, has just   *)
(* been written and is the end of the sink.                                 *)
C2_Witness ==
    /\ pc = "write_iend"
    /\ chunk.type = <<73, 68, 65, 84>>
    /\ Len(chunk.data) > 11
    /\ Len(stream) = chunk.at + 12 + Len(chunk.data)
    /\ SubSeq(stream, chunk.at + 5, chunk.at + 8) = <<73, 68, 65, 84>>

(* C3: when write_image raises the size-mismatch error, no byte has been    *)
(* written to the sink since the call began.                                *)
C3_FailsBeforeWriting ==
    (pc = "raised" /\ Len(image) # width * height * 3) => Len(stream) = mark

----------------------------------------------------------------------------
(* The filters, read back. *)

FilterTag == [none_filter |-> 0, sub_filter |-> 1, up_filter |-> 2,
              average_filter |-> 3, paeth_filter |-> 4]

FilterNames == DOMAIN FilterTag

(* The previous scanline the decoder sees: zeros when there is none. *)
Prior(n) == IF arg_prev_scanline = None THEN [k \in 1..n |-> 0] ELSE arg_prev_scanline

(* The PNG standard's predictor and its reconstruction of a filtered line    *)
(* f (tag first) over the prior line, 3 bytes per pixel, left to right.      *)
StandardPaeth(a, b, c) ==
    LET p == a + b - c
    IN  IF Abs(p - a) <= Abs(p - b) /\ Abs(p - a) <= Abs(p - c) THEN a
        ELSE IF Abs(p - b) <= Abs(p - c) THEN b
        ELSE c

RECURSIVE Reconstruct(_, _, _)
Reconstruct(f, prior, n) ==
    IF n = 0 THEN <<>>
    ELSE LET r == Reconstruct(f, prior, n - 1)
             a == IF n > 3 THEN r[n - 3] ELSE 0
             b == prior[n]
             c == IF n > 3 THEN prior[n - 3] ELSE 0
             predicted == CASE f[1] = 0 -> 0
                            [] f[1] = 1 -> a
                            [] f[1] = 2 -> b
                            [] f[1] = 3 -> (a + b) \div 2
                            [] f[1] = 4 -> StandardPaeth(a, b, c)
         IN  Append(r, (f[n + 1] + predicted) % 256)

(* C5: each of the five filters returns 1 + len(scanline) bytes that start   *)
(* with its tag, and the standard inverse for that tag gives the scanline    *)
(* back, with any previous scanline of the same length or none.              *)
C5_FilterRoundTrip ==
    applied \in FilterNames =>
        /\ Len(filtered) = 1 + Len(arg_scanline)
        /\ filtered[1] = FilterTag[applied]
        /\ Reconstruct(filtered, Prior(Len(arg_scanline)), Len(arg_scanline)) = arg_scanline

(* C5 witness: the Average filter was applied to a two-pixel scanline over   *)
(* a previous scanline, and changed a byte of each pixel.                    *)
C5_Witness ==
    /\ applied = "average_filter"
    /\ arg_prev_scanline # None
    /\ Len(arg_scanline) = 6
    /\ filtered[2] # arg_scanline[1]
    /\ filtered[5] # arg_scanline[4]
    /\ Reconstruct(filtered, arg_prev_scanline, 6) = arg_scanline

(* The neighbours of byte k (1-based) as the claim names them. *)
LeftByte(k) == IF k - 1 < 3 THEN 0 ELSE arg_scanline[k - 3]

UpByte(k) == IF arg_prev_scanline = None THEN 0 ELSE arg_prev_scanline[k]

UpLeftByte(k) == IF arg_prev_scanline = None \/ k - 1 < 3 THEN 0 ELSE arg_prev_scanline[k - 3]

FilterByName(name, line, previous) ==
    CASE name = "none_filter" -> none_filter(line, previous)
      [] name = "sub_filter" -> sub_filter(line, previous)
      [] name = "up_filter" -> up_filter(line, previous)
      [] name = "average_filter" -> average_filter(line, previous)
      [] name = "paeth_filter" -> paeth_filter(line, previous)

ProbeBytes == {0, 77, 255}

(* C6: byte by byte, Sub emits (x-a) mod 256, Up (x-b) mod 256, Average      *)
(* (x - floor((a+b)/2)) mod 256 and Paeth (x - pr) mod 256 with pr chosen    *)
(* among a, b, c by distance to a+b-c, ties to a, then b; and changing a     *)
(* byte whose index differs from i modulo 3, in either scanline, leaves      *)
(* output byte i as it was.                                                  *)
C6_FilterFormulas ==
    applied \in FilterNames =>
        \A k \in 1..Len(arg_scanline) :
            LET x == arg_scanline[k]
                a == LeftByte(k)
                b == UpByte(k)
                c == UpLeftByte(k)
                p == a + b - c
                pr == IF Abs(p - a) <= Abs(p - b) /\ Abs(p - a) <= Abs(p - c) THEN a
                      ELSE IF Abs(p - b) <= Abs(p - c) THEN b
                      ELSE c
            IN  /\ applied = "sub_filter" => filtered[k + 1] = (x - a) % 256
                /\ applied = "up_filter" => filtered[k + 1] = (x - b) % 256
                /\ applied = "average_filter" => filtered[k + 1] = (x - ((a + b) \div 2)) % 256
                /\ applied = "paeth_filter" => filtered[k + 1] = (x - pr) % 256
                /\ \A j \in 1..Len(arg_scanline), v \in ProbeBytes :
                      (j - k) % 3 # 0 =>
                          /\ FilterByName(applied, [arg_scanline EXCEPT ![j] = v],
                                          arg_prev_scanline)[k + 1] = filtered[k + 1]
                          /\ arg_prev_scanline # None =>
                                FilterByName(applied, arg_scanline,
                                             [arg_prev_scanline EXCEPT ![j] = v])[k + 1]
                                    = filtered[k + 1]

(* C6 witness: Paeth was applied over a previous scanline and, for a byte of *)
(* the second pixel, a and c are equally near a+b-c and differ, and the      *)
(* emitted byte is x - a.                                                    *)
C6_Witness ==
    /\ applied = "paeth_filter"
    /\ arg_prev_scanline # None
    /\ Len(arg_scanline) = 6
    /\ \E k \in 4..6 :
          LET a == LeftByte(k)
              b == UpByte(k)
              c == UpLeftByte(k)
              p == a + b - c
          IN  /\ a # c
              /\ Abs(p - a) = Abs(p - c)
              /\ Abs(p - a) <= Abs(p - b)
              /\ filtered[k + 1] = (arg_scanline[k] - a) % 256

RECURSIVE SumOfAbs(_, _)
SumOfAbs(line, k) ==
    IF k > Len(line) THEN 0
    ELSE (IF line[k] < 128 THEN line[k] ELSE 256 - line[k]) + SumOfAbs(line, k + 1)

(* The claim's score: every byte after the tag, read as signed, in absolute value. *)
Score(line) == SumOfAbs(line, 2)

(* C4: the line the adaptive choice emits is the candidate of the least      *)
(* score, and among candidates of that score the first in the order          *)
(* None, Sub, Up, Average, Paeth.                                            *)
C4_AdaptiveMinimum ==
    applied = "adaptive" =>
        LET candidates == [n \in 1..5 |-> ApplyFilter(n, arg_scanline, arg_prev_scanline)]
            best == CHOOSE n \in 1..5 :
                        /\ \A m \in 1..5 : Score(candidates[n]) <= Score(candidates[m])
                        /\ \A m \in 1..(n - 1) : Score(candidates[m]) > Score(candidates[n])
        IN  filtered = candidates[best]

----------------------------------------------------------------------------
(* Canvas claims. *)

(* The colour of pixel (x, y) of canvas c in heap h. *)
Pixel(h, c, x, y) == h[c.canvas[y * c.width + x + 1]]

Coordinates(c) == (0..(c.width - 1)) \X (0..(c.height - 1))

(* Where pixel i (0-based) of s lands, s placed at the offset. *)
Lands(s, offset_x, offset_y, i) == <<offset_x + (i % s.width), offset_y + (i \div s.width)>>

AllAlpha(h, c, P(_)) == \A k \in 1..Len(c.canvas) : P(h[c.canvas[k]].a)

IsZero(a) == a = Q0

IsOpaque(a) == QGeq(a, OpaqueAlpha)

(* C7: a blend call, for any offsets, raises no index error; changes a      *)
(* destination pixel only at a coordinate (offset_x + src_x, offset_y +     *)
(* src_y) inside the destination; and leaves alone the destination's       *)
(* dimensions, pixel list and background, and the background and every     *)
(* pixel of a distinct source.                                             *)
C7_BlendFrame ==
    [][last'.op = "blend" =>
          LET d == cv[last'.dst]
              s_ == cv[last'.src]
          IN  /\ last'.err # "IndexError"
              /\ cv' = cv
              /\ Len(heap') = Len(heap)
              /\ \A t \in Coordinates(d) :
                    Pixel(heap', d, t[1], t[2]) # Pixel(heap, d, t[1], t[2])
                        => \E i \in 0..(Len(s_.canvas) - 1) : Lands(s_, last'.x, last'.y, i) = t
              /\ heap'[d.bgcolor] = heap[d.bgcolor]
              /\ last'.src # last'.dst =>
                    /\ heap'[s_.bgcolor] = heap[s_.bgcolor]
                    /\ \A k \in 1..Len(s_.canvas) : heap'[s_.canvas[k]] = heap[s_.canvas[k]]
      ]_vars

(* C7 witness: a source at least two wide was blended at the destination's  *)
(* last column: its first pixel replaced the pixel there, and its second,   *)
(* clipped on the right, did not reach the first pixel of the next row.     *)
C7_Witness ==
    /\ last.op = "blend" /\ last.dst = "D" /\ last.src = "S"
    /\ last.err = NoError /\ last.ign
    /\ cv["S"].width >= 2 /\ cv["D"].height >= 2
    /\ last.x = cv["D"].width - 1 /\ last.y = 0
    /\ Pixel(heap, cv["D"], last.x, 0) = Pixel(heap, cv["S"], 0, 0)
    /\ Pixel(heap, cv["D"], 0, 1) # Pixel(heap, cv["S"], 1, 0)

(* C8: blending a distinct source whose pixels all have alpha 0, without    *)
(* ignore_src_alpha, raises nothing and leaves every destination pixel as   *)
(* it was, whatever the destination's alphas.                               *)
C8_TransparentSource ==
    [][(/\ last'.op = "blend" /\ last'.src # last'.dst /\ ~last'.ign
        /\ AllAlpha(heap, cv[last'.src], IsZero))
          => /\ last'.err = NoError
             /\ \A k \in 1..Len(cv[last'.dst].canvas) :
                   heap'[cv[last'.dst].canvas[k]] = heap[cv[last'.dst].canvas[k]]
      ]_vars

(* r holds the pixels of the rectangle of c at (x, y), of r's size. *)
RectOf(h, r, c, x, y) ==
    /\ r # NoCanvas /\ r.width >= 0 /\ r.height >= 0
    /\ x >= 0 /\ y >= 0 /\ x + r.width <= c.width /\ y + r.height <= c.height
    /\ Len(r.canvas) = r.width * r.height
    /\ \A t \in Coordinates(r) : Pixel(h, r, t[1], t[2]) = Pixel(h, c, x + t[1], y + t[2])

(* d is a copy of c that was cleared. *)
ClearedCopyOf(h, d, c) ==
    /\ d # NoCanvas /\ d.width = c.width /\ d.height = c.height
    /\ d.bgcolor = c.bgcolor
    /\ Len(d.canvas) = d.width * d.height
    /\ \A k \in 1..Len(d.canvas) : h[d.canvas[k]] = h[d.bgcolor]

(* D.blend(R, x, y) with R = C.rect(x, y, w, h) and D = C.copy() cleared. *)
BlendsRectBack ==
    /\ last'.op = "blend" /\ last'.dst = "D" /\ last'.src = "R" /\ ~last'.ign
    /\ {"rect", "copy", "clear"} \subseteq called
    /\ RectOf(heap, cv["R"], cv["C"], last'.x, last'.y)
    /\ ClearedCopyOf(heap, cv["D"], cv["C"])

RectReproduced ==
    /\ last'.err = NoError
    /\ \A t \in Coordinates(cv["R"]) :
          Pixel(heap', cv'["D"], last'.x + t[1], last'.y + t[2])
              = Pixel(heap, cv["C"], last'.x + t[1], last'.y + t[2])

(* C9 as stated: for pixels of any alpha, blending R = C.rect(x, y, w, h)   *)
(* at (x, y) onto a cleared copy D of C makes D's pixels in the rectangle   *)
(* equal to C's in all four channels.                                       *)
C9_AnyAlpha == [][BlendsRectBack => RectReproduced]_vars

(* C9: when every pixel of the rectangle is opaque (alpha >= 0.999999),     *)
(* blending R = C.rect(x, y, w, h) at (x, y) onto a cleared copy D of C     *)
(* makes D's pixels in the rectangle equal to C's in all four channels.     *)
C9_OpaqueRect ==
    [][(BlendsRectBack /\ AllAlpha(heap, cv["R"], IsOpaque)) => RectReproduced]_vars

(* C9 witness: a non-empty opaque rectangle was taken, the copy cleared,    *)
(* and the blend at the rectangle's origin changed the cleared pixel there  *)
(* to the pixel of C.                                                       *)
C9_Witness ==
    /\ last.op = "blend" /\ last.dst = "D" /\ last.src = "R" /\ ~last.ign
    /\ last.err = NoError
    /\ {"rect", "copy", "clear"} \subseteq called
    /\ Len(cv["R"].canvas) >= 2
    /\ AllAlpha(heap, cv["R"], IsOpaque)
    /\ RectOf(heap, cv["R"], cv["C"], last.x, last.y)
    /\ last.x + last.y >= 1
    /\ Pixel(heap, cv["D"], last.x, last.y) # heap[cv["D"].bgcolor]
    /\ \A t \in Coordinates(cv["R"]) :
          Pixel(heap, cv["D"], last.x + t[1], last.y + t[2])
              = Pixel(heap, cv["C"], last.x + t[1], last.y + t[2])
    /\ \E t \in Coordinates(cv["D"]) : Pixel(heap, cv["D"], t[1], t[2]) = heap[cv["D"].bgcolor]

(* The cases in which the claim says rect fails. *)
RectMustFail(c, x, y, w, h) ==
    \/ x < 0 \/ x >= c.width \/ y < 0 \/ y >= c.height
    \/ w < 0 \/ h < 0
    \/ x + w > c.width \/ y + h > c.height

(* C10: rect(x, y, w, h) raises, returns no canvas and leaves the source    *)
(* as it was when the origin is outside the canvas, w or h is negative, or  *)
(* the rectangle passes an edge; in every other case it returns a canvas    *)
(* of exactly w x h pixels whose pixel (i, j) is the source's (x+i, y+j).   *)
C10_RectErrors ==
    [][last'.op = "rect" =>
          LET c == cv[last'.src]
              r == cv'[last'.dst]
          IN  /\ cv'[last'.src] = c
              /\ \A id \in 1..Len(heap) : heap[id] # Free => heap'[id] = heap[id]
              /\ IF RectMustFail(c, last'.x, last'.y, last'.w, last'.h)
                 THEN /\ last'.err # NoError
                      /\ r = NoCanvas
                 ELSE /\ last'.err = NoError
                      /\ r.width = last'.w /\ r.height = last'.h
                      /\ Len(r.canvas) = last'.w * last'.h
                      /\ \A t \in Coordinates(r) :
                            Pixel(heap', r, t[1], t[2])
                                = Pixel(heap, c, last'.x + t[1], last'.y + t[2])
      ]_vars

(* C10 witness: a rectangle whose origin is inside the canvas and whose     *)
(* size is positive, but which passes the right or bottom edge, was asked   *)
(* for: the call raised and no canvas was returned.                         *)
C10_Witness ==
    /\ last.op = "rect" /\ last.err # NoError
    /\ last.x >= 0 /\ last.x < cv["C"].width /\ last.y >= 0 /\ last.y < cv["C"].height
    /\ last.w > 0 /\ last.h > 0
    /\ last.x + last.w > cv["C"].width \/ last.y + last.h > cv["C"].height
    /\ cv["R"] = NoCanvas

(* The pixel size of the import call in last: 3 bytes for RGB, 4 for RGBA. *)
ImportSize(call) == IF call.op = "import_rgb_data" THEN 3 ELSE 4

IsImport(call) == call.op \in {"import_rgb_data", "import_rgba_data"}

(* C11: import_rgb_data (import_rgba_data) of a buffer whose length is not  *)
(* a multiple of 3 (4) raises nothing, sets the first floor(len / size)    *)
(* pixels of the canvas to the buffer's whole pixels in order, and leaves   *)
(* the other pixels as they were.                                           *)
C11_ImportTruncates ==
    [][(IsImport(last') /\ Len(last'.data) % ImportSize(last') # 0) =>
          LET size == ImportSize(last')
              whole == Len(last'.data) \div size
              before == cv[last'.dst].canvas
              after == cv'[last'.dst].canvas
          IN  /\ last'.err = NoError
              /\ Len(after) = Len(before)
              /\ \A k \in 1..Len(after) :
                    IF k <= whole
                    THEN heap'[after[k]] = Unpacked(last'.data, (k - 1) * size, size)
                    ELSE heap'[after[k]] = heap[before[k]]
      ]_vars

(* The canvases there are. *)
Live(canvases) == { n \in CanvasNames : canvases[n] # NoCanvas }

BufferLengthsHold ==
    \A n \in Live(cv) :
        /\ n = "C" => cv[n].width > 0 /\ cv[n].height > 0
        /\ Len(cv[n].canvas) = cv[n].width * cv[n].height

(* A call leaves the width and height of every canvas as they were, and a   *)
(* canvas it returns has the size asked for (rect) or the source's (copy).  *)
SizesKept ==
    /\ \A n \in Live(cv) :
          /\ cv'[n] # NoCanvas
          /\ cv'[n].width = cv[n].width
          /\ cv'[n].height = cv[n].height
    /\ \A n \in Live(cv') \ Live(cv) :
          /\ n = last'.dst
          /\ last'.op = "rect" => cv'[n].width = last'.w /\ cv'[n].height = last'.h
          /\ last'.op = "copy" =>
                /\ cv'[n].width = cv[last'.src].width
                /\ cv'[n].height = cv[last'.src].height

(* C12: for a canvas constructed with positive width and height, after any  *)
(* calls of clear, copy, rect, blend, import_rgb_data, import_rgba_data    *)
(* and bytes, failed calls included, the length of the pixel list is       *)
(* width * height and width and height are those of the construction; the  *)
(* same holds for the canvases copy and rect return.                        *)
C12_BufferLength == []BufferLengthsHold /\ [][SizesKept]_vars

(* C12 witness: after a rect and a copy, an import of more pixels than the  *)
(* canvas holds has raised IndexError.                                      *)
C12_Witness ==
    /\ IsImport(last) /\ last.err = "IndexError"
    /\ Len(last.data) > ImportSize(last) * Len(cv[last.dst].canvas)
    /\ cv["R"] # NoCanvas /\ cv["D"] # NoCanvas
    /\ Len(cv["C"].canvas) >= 2

(* The places of all pixel lists: <<canvas, index>>. *)
PixelPlaces(canvases) ==
    UNION { { <<n, k>> : k \in 1..Len(canvases[n].canvas) } : n \in Live(canvases) }

NoSharedPixel ==
    LET ObjectAt(p) == cv[p[1]].canvas[p[2]]
    IN  /\ \A p \in PixelPlaces(cv) : \A n \in Live(cv) : ObjectAt(p) # cv[n].bgcolor
        /\ \A p \in PixelPlaces(cv) : \A q \in PixelPlaces(cv) :
              ObjectAt(p) = ObjectAt(q) => p = q

(* A call changes no pixel and no field of a canvas other than the one it   *)
(* is made on (the destination of blend, the canvas cleared or imported     *)
(* into) or returns.                                                        *)
OthersUntouched ==
    \A n \in Live(cv) \ {last'.dst} :
        /\ cv'[n] = cv[n]
        /\ \A k \in 1..Len(cv[n].canvas) : heap'[cv[n].canvas[k]] = heap[cv[n].canvas[k]]

(* C13: no pixel object of a canvas is a background object or a pixel of    *)
(* another canvas (or the same pixel list twice), after construction,       *)
(* rect, copy, clear, import and blend; so a call that mutates R leaves     *)
(* every pixel of C = the source of R unchanged, and one that mutates C     *)
(* leaves every pixel of R unchanged.                                       *)
C13_NoAliasing == []NoSharedPixel /\ [][OthersUntouched]_vars

(* C13 witness: R was taken at C's origin and then imported into: its first *)
(* pixel is the imported one, and C's first pixel is still the one it had.  *)
C13_Witness ==
    /\ last.op = "import_rgba_data" /\ last.dst = "R" /\ last.err = NoError
    /\ "rect" \in called
    /\ Pixel(heap, cv["R"], 0, 0) = Unpacked(last.data, 0, 4)
    /\ Pixel(heap, cv["C"], 0, 0) = Red
    /\ Pixel(heap, cv["R"], 0, 0) # Red

====
